---- MODULE Spec2Model ----
(***************************************************************************)
(* Pomodoro timer (src/src/main.rs): the shared AppState, the properties   *)
(* of the window the callbacks read and write, and the five callbacks      *)
(* registered in main(): settings_changed, select_file, toggle_timer,      *)
(* reset_timer and the repeated one-second timer.                          *)
(*                                                                         *)
(* Text (the settings fields, the timer text) is a sequence of one-        *)
(* character strings, so that parsing and formatting are computed.         *)
(* All callbacks run on the event-loop thread, one at a time: each is one  *)
(* atomic action.  The window outlives the event loop, so the timer's      *)
(* `ui_copy.upgrade()` always succeeds while callbacks run.                *)
(*                                                                         *)
(* alarms_started and notifications_shown hold what the latest callback    *)
(* dispatched; `run` is not program state: it counts the ticks of a run    *)
(* that began in a fresh Focus phase and that nothing has interrupted.     *)
(*                                                                         *)
(* Spec is the event-loop view: a callback is one step.  SpecEffects is    *)
(* the thread-level view of the completion branch: the callback's steps    *)
(* interleave with the alarm threads it spawned and with the notification  *)
(* service.  SpecLive is the running timer left alone, under the fairness  *)
(* of the repeated timer.                                                  *)
(***************************************************************************)
EXTENDS Integers, Sequences, FiniteSets

VARIABLES
    seconds_left,            \* AppState.seconds_left (i32)
    mode,                    \* AppState.mode
    sessions_completed,      \* AppState.sessions_completed (i32)
    config,                  \* AppState.config: work_m, short_m, long_m, alarm_path
    config_file,             \* contents of config.json
    overflow_checks,         \* the build's overflow checks: "on", "off", or "unknown"
                             \* while no multiplication has overflowed
    is_running,              \* window property is-running
    timer_text,              \* window property timer-text
    mode_text,               \* window property mode-text
    mode_color,              \* window property mode-color
    progress,                \* window property progress (f32, kept as a ratio)
    sessions_count,          \* window property sessions-count
    work_setting,            \* window property work-setting (text)
    short_break_setting,     \* window property short-break-setting (text)
    long_break_setting,      \* window property long-break-setting (text)
    alarm_name,              \* window property alarm-name
    alarms_started,          \* play_alarm calls of the latest callback: their paths
    notifications_shown,     \* Notification::show calls of the latest callback: their bodies
    run,                     \* observation: ticks counted since a fresh running Focus phase
    pc,                      \* where the timer callback stands inside its completion branch
    alarm_threads,           \* the play_alarm threads alive, oldest first
    notification_call,       \* the Notification::show call under way: pending, or its result
    alarm_result             \* observation: how the thread of the callback under way ended

core == <<seconds_left, mode, sessions_completed, config>>
window == <<is_running, timer_text, mode_text, mode_color, progress, sessions_count,
            work_setting, short_break_setting, long_break_setting, alarm_name>>
effects == <<alarms_started, notifications_shown>>
vars == <<seconds_left, mode, sessions_completed, config, config_file,
          overflow_checks,
          is_running, timer_text, mode_text, mode_color, progress, sessions_count,
          work_setting, short_break_setting, long_break_setting, alarm_name,
          alarms_started, notifications_shown, run,
          pc, alarm_threads, notification_call, alarm_result>>

\* What only the thread-level view (SpecEffects) moves.
threadvars == <<alarm_threads, notification_call, alarm_result>>

----------------------------------------------------------------------------
(* Bounds of the model *)

\* Focus sessions after which the model stops completing further ones.
MaxSessions == 5

(* Program constants *)

SecondsPerMinute == 60
CadenceLength == 4
I32Max == 2147483647
I32Min == -I32Max - 1
DefaultWorkM == 25
DefaultShortM == 5
DefaultLongM == 15

DefaultAlarmPath == <<"alarm.mp3">>

----------------------------------------------------------------------------
(* i32 arithmetic as Rust computes it *)

\* (x != i32::MIN)
Abs(x) == IF x < 0 THEN -x ELSE x

\* `/` on i32 truncates toward zero (the divisor is positive: the literal 60).
TruncDiv(a, b) ==
    IF a >= 0 \/ a % b = 0 THEN a \div b ELSE (a \div b) + 1

\* `%` on i32 takes the sign of the dividend.
Rem(a, b) == a - b * TruncDiv(a, b)

\* `a * b` on i32 in a build without overflow checks (release): the product
\* modulo 2^32, computed in 16-bit halves; 0 < b < 2^15.
WrappingMul(a, b) ==
    LET lo  == a % 65536
        hi  == ((a - lo) \div 65536) % 65536
        plo == lo * b
        phi == (hi * b + plo \div 65536) % 65536
        rlo == plo % 65536
    IN  IF phi >= 32768 THEN (phi - 65536) * 65536 + rlo ELSE phi * 65536 + rlo

\* Whether `a * b` leaves i32: a build with overflow checks (debug) panics then.
MulOverflows(a, b) ==
    \/ a > I32Max \div b
    \/ a < -((I32Max \div b) + (IF I32Max % b = b - 1 THEN 1 ELSE 0))

----------------------------------------------------------------------------
(* Text: i32 Display, {:02}, str::parse::<i32> *)

Digits == <<"0", "1", "2", "3", "4", "5", "6", "7", "8", "9">>

IsDigit(c) == \E d \in 1..10 : Digits[d] = c

DigitVal(c) == (CHOOSE d \in 1..10 : Digits[d] = c) - 1

RECURSIVE NatToString(_)
NatToString(n) ==
    IF n < 10 THEN <<Digits[n + 1]>>
    ELSE NatToString(n \div 10) \o <<Digits[(n % 10) + 1]>>

\* i32::to_string
ToString(n) ==
    IF n = I32Min THEN <<"-">> \o NatToString(I32Max \div 10) \o <<"8">>
    ELSE IF n < 0 THEN <<"-">> \o NatToString(-n) ELSE NatToString(n)

\* format!("{:02}", n): sign-aware zero padding to width 2.
Pad2(n) == IF Len(ToString(n)) >= 2 THEN ToString(n) ELSE <<"0">> \o ToString(n)

\* The digit loop of str::parse::<i32>: checked_mul(10), then checked_add of the
\* digit, or checked_sub for a number written with "-"; None on overflow.
RECURSIVE ParseDigits(_, _, _)
ParseDigits(ds, negative, acc) ==
    IF ds = <<>> THEN [ok |-> TRUE, val |-> acc]
    ELSE LET d == DigitVal(Head(ds))
             fits == IF negative
                     THEN /\ acc >= -(I32Max \div 10)
                          /\ acc * 10 + I32Max >= d - 1
                     ELSE /\ acc <= I32Max \div 10
                          /\ d <= I32Max - acc * 10
         IN  IF fits
             THEN ParseDigits(Tail(ds), negative,
                              IF negative THEN acc * 10 - d ELSE acc * 10 + d)
             ELSE [ok |-> FALSE, val |-> 0]

\* str::parse::<i32>: an optional sign, then one or more digits, within i32.
ParseI32(text) ==
    LET signed == text # <<>> /\ text[1] \in {"+", "-"}
        ds     == IF signed THEN Tail(text) ELSE text
        wellFormed == ds # <<>> /\ \A i \in 1..Len(ds) : IsDigit(ds[i])
    IN  IF wellFormed
        THEN ParseDigits(ds, signed /\ text[1] = "-", 0)
        ELSE [ok |-> FALSE, val |-> 0]

\* text.parse().unwrap_or(previous)
ParseOr(text, previous) == IF ParseI32(text).ok THEN ParseI32(text).val ELSE previous

\* format!("{:02}:00", minutes)
FormatMinutes(minutes) == Pad2(minutes) \o <<":", "0", "0">>

\* format!("{:02}:{:02}", s / 60, s % 60)
FormatClock(s) ==
    Pad2(TruncDiv(s, SecondsPerMinute)) \o <<":">> \o Pad2(Rem(s, SecondsPerMinute))

----------------------------------------------------------------------------
(* f32: a value is sign * m * 2^e with 2^23 <= m < 2^24, or a zero, an     *)
(* infinity or NaN.  Conversions and the division round to nearest, ties   *)
(* to even, as IEEE 754 binary32 does.                                     *)

F32Num(sign, m, e) == [k |-> "num", s |-> sign, m |-> m, e |-> e]
F32Zero(sign) == F32Num(sign, 0, 0)
F32Inf(sign) == [k |-> "inf", s |-> sign, m |-> 0, e |-> 0]
F32NaN == [k |-> "nan", s |-> 1, m |-> 0, e |-> 0]

\* Shift <<m, e>> up by `bits` (a factor of `factor`) when m is below `limit`.
ShiftWhenBelow(me, limit, factor, bits) ==
    IF me[1] < limit THEN <<me[1] * factor, me[2] - bits>> ELSE me

\* A magnitude below 2^24 is exact: shift it up to 24 bits (by 12, 6, 3, 1
\* and 1 places as needed, so that 2^23 <= m < 2^24).
ShiftUp(m, e) ==
    ShiftWhenBelow(
        ShiftWhenBelow(
            ShiftWhenBelow(
                ShiftWhenBelow(
                    ShiftWhenBelow(<<m, e>>, 4096, 4096, 12),
                    262144, 64, 6),
                2097152, 8, 3),
            4194304, 2, 1),
        8388608, 2, 1)

\* The number of low bits a magnitude of 2^24 or more loses.
RECURSIVE BitsOver(_)
BitsOver(a) == IF a < 16777216 THEN 0 ELSE 1 + BitsOver(a \div 2)

RECURSIVE Pow2(_)
Pow2(n) == IF n = 0 THEN 1 ELSE 2 * Pow2(n - 1)

\* Round q (24 bits, value q * 2^e) up by one unit in the last place when `up`.
RoundUp(sign, q, e, up) ==
    IF ~up THEN F32Num(sign, q, e)
    ELSE IF q + 1 = 16777216 THEN F32Num(sign, 8388608, e + 1)
    ELSE F32Num(sign, q + 1, e)

\* The f32 nearest to sign * a, for 0 < a < 2^31.
MagnitudeToF32(sign, a) ==
    LET k == BitsOver(a) IN
    IF k = 0
    THEN F32Num(sign, ShiftUp(a, 0)[1], ShiftUp(a, 0)[2])
    ELSE LET q    == a \div Pow2(k)
             r    == a % Pow2(k)
             half == Pow2(k - 1)
         IN  RoundUp(sign, q, k, r > half \/ (r = half /\ q % 2 = 1))

\* `n as f32` for an i32 n.  (The set binds the magnitude's value once.)
IntToF32(n) ==
    IF n = 0 THEN F32Zero(1)
    ELSE IF n = I32Min THEN F32Num(-1, 8388608, 8)
    ELSE CHOOSE x \in { MagnitudeToF32(IF n < 0 THEN -1 ELSE 1, a) : a \in {Abs(n)} } : TRUE

\* One step of long division producing log2(radix) more quotient bits:
\* qr = <<quotient, remainder>> with remainder < den < 2^24 and radix <= 128,
\* so that remainder * radix stays below 2^31.
DivStep(qr, den, radix) ==
    <<qr[1] * radix + (qr[2] * radix) \div den, (qr[2] * radix) % den>>

\* Long division of two 24-bit significands: 21 more quotient bits after q,
\* then log2(last) more; rem < den throughout; the result is
\* <<quotient, remainder>>.
DivBits(q, rem, den, last) ==
    DivStep(DivStep(DivStep(DivStep(<<q, rem>>, den, 128), den, 128), den, 128),
            den, last)

\* x / y on f32, for finite x and y (both come from an i32).
F32Div(x, y) ==
    LET sign == x.s * y.s IN
    IF y.m = 0 THEN IF x.m = 0 THEN F32NaN ELSE F32Inf(sign)
    ELSE IF x.m = 0 THEN F32Zero(sign)
    ELSE LET big == x.m >= y.m
             qr  == IF big THEN DivBits(1, x.m - y.m, y.m, 4)
                           ELSE DivBits(0, x.m, y.m, 8)
             e   == IF big THEN x.e - y.e - 23 ELSE x.e - y.e - 24
         IN  RoundUp(sign, qr[1], e,
                     2 * qr[2] > y.m \/ (2 * qr[2] = y.m /\ qr[1] % 2 = 1))

\* a as f32 / b as f32  (the sets bind each converted operand's value once)
Ratio(a, b) ==
    CHOOSE r \in { F32Div(x, y) : x \in {IntToF32(a)}, y \in {IntToF32(b)} } : TRUE

\* 1.0
One == F32Num(1, 8388608, -23)

IsNaN(r) == r.k = "nan"

\* -1, 0 or 1: zeros of either sign compare equal.
Sign(r) == IF r.k = "num" /\ r.m = 0 THEN 0 ELSE r.s

\* |r| <= |q| for two values that are not zero and not NaN.
MagLeq(r, q) ==
    IF r.k = "inf" THEN q.k = "inf"
    ELSE IF q.k = "inf" THEN TRUE
    ELSE r.e < q.e \/ (r.e = q.e /\ r.m <= q.m)

\* f32 `<=`: false when either side is NaN.
RatioLeq(r, q) ==
    /\ ~IsNaN(r) /\ ~IsNaN(q)
    /\ IF Sign(r) # Sign(q) THEN Sign(r) < Sign(q)
       ELSE IF Sign(r) = 0 THEN TRUE
       ELSE IF Sign(r) = 1 THEN MagLeq(r, q)
       ELSE MagLeq(q, r)

----------------------------------------------------------------------------
(* Configuration: AppConfig, load_config, save_config *)

AppConfig(w, s, l, path) == [work_m |-> w, short_m |-> s, long_m |-> l, alarm_path |-> path]

\* impl Default for AppConfig
DefaultConfig == AppConfig(DefaultWorkM, DefaultShortM, DefaultLongM, DefaultAlarmPath)

\* config.json: absent or unreadable, not an AppConfig in JSON, or an AppConfig
\* in JSON.
MissingFile == [kind |-> "missing"]
CorruptFile == [kind |-> "corrupt"]
JsonFile(cfg) == [kind |-> "json", cfg |-> cfg]

\* load_config: the file's AppConfig as it stands, the default on any failure.
LoadConfig(file) == IF file.kind = "json" THEN file.cfg ELSE DefaultConfig

\* fs::write(path, json) is File::create(path)?.write_all(json).  Each call ends
\* in its own way: the file is replaced ("written"); File::create has truncated
\* the file and write_all fails, which leaves an empty or cut file that is not
\* an AppConfig in JSON ("cut"); File::create fails and the file stays as it was
\* ("refused"); or File::create fails because the path no longer holds a file
\* that can be read, such as a directory ("blocked").
WriteOutcomes == {"written", "cut", "refused", "blocked"}

\* The outcomes on a disk that takes every write.
WorkingDisk == {"written"}

\* save_config: the outcome of fs::write on config.json; its result is dropped
\* and the file is never read again.
SaveConfig(cfg, file, outcome) ==
    CASE outcome = "written" -> JsonFile(cfg)
      [] outcome = "cut"     -> CorruptFile
      [] outcome = "refused" -> file
      [] outcome = "blocked" -> MissingFile

\* Path::components: a path is given by its components ("/" is the root); a
\* "." that is not the first component is dropped.
Components(path) ==
    SelectSeq([i \in DOMAIN path |-> IF i > 1 /\ path[i] = "." THEN "" ELSE path[i]],
              LAMBDA c : c # "")

\* Path::file_name: the last component when it is a normal one; None for the
\* empty path and for a path that ends in "..", is the root or is ".".
FileName(path) ==
    LET comps == Components(path) IN
    IF comps = <<>> \/ comps[Len(comps)] \in {"..", "/", "."}
    THEN [some |-> FALSE, name |-> ""]
    ELSE [some |-> TRUE, name |-> comps[Len(comps)]]

\* main(): file_name().map(..).unwrap_or_else(|| "alarm.mp3")
AlarmNameAtStart(path) ==
    IF FileName(path).some THEN FileName(path).name ELSE "alarm.mp3"

----------------------------------------------------------------------------
(* The phase table *)

Modes == {"Work", "ShortBreak", "LongBreak"}

\* The minutes of each mode.
Minutes(m, cfg) ==
    CASE m = "Work"       -> cfg.work_m
      [] m = "ShortBreak" -> cfg.short_m
      [] m = "LongBreak"  -> cfg.long_m

\* match s.mode { Work => work_m * 60, ShortBreak => short_m * 60, LongBreak => long_m * 60 }
\* where the product stays in i32, and what a build without overflow checks
\* computes where it does not.
TotalSeconds(m, cfg) == WrappingMul(Minutes(m, cfg), SecondsPerMinute)

\* The product leaves i32: a build with overflow checks panics on it.
TotalOverflows(m, cfg) == MulOverflows(Minutes(m, cfg), SecondsPerMinute)

\* Where the callback stands after a multiplication: a build with overflow
\* checks panics on an overflow and the process ends; a build without goes on
\* with the wrapped product.  Which build runs is not known before the first
\* overflow, and it is the same build afterwards.
AfterMul(overflows, checks, next) ==
    IF overflows /\ checks # "off" THEN {next, "panicked"} ELSE {next}

\* What an overflowing multiplication shows of the build.
ChecksAfter(overflows, checks, panicked) ==
    IF ~overflows THEN checks ELSE IF panicked THEN "on" ELSE "off"

\* What a statement after the point of a panic leaves: the old value.
Unless(panicked, new, old) == IF panicked THEN old ELSE new

\* Mutant of Gated: the timer callback does not look at is-running.
Gated_Never(running) == FALSE

\* The timer's gate `if !ui.get_is_running() { return; }`.
Gated(running) == ~running

\* Mutant of Expired: the test is `seconds_left > 1`, a phase ends one tick early.
Expired_OneEarly(s) == ~(s > 1)

\* The timer's test `s.seconds_left > 0`, negated: the phase is over.
Expired(s) == ~(s > 0)

\* settings_changed: seconds_left is recomputed only `if !ui.get_is_running()`.
SecondsAfterSettings(running, m, cfg, left) ==
    IF ~running THEN TotalSeconds(m, cfg) ELSE left

\* thread::spawn makes the thread, or panics when the OS refuses one.
SpawnOutcomes == {"spawned", "refused"}

\* play_alarm(path): one detached thread is spawned for the path; when
\* thread::spawn panics none is, and the panic unwinds through the caller.
PlayAlarm(path, spawn) == IF spawn = "spawned" THEN <<path>> ELSE <<>>

\* Whether play_alarm panics.
PlayAlarmPanics(spawn) == spawn = "refused"

\* Notification::new().summary("Pomodoro").body(body).show(), its result dropped.
ShowNotification(body) == <<body>>

\* Mode::Work arm: s.sessions_completed += 1; the other arm leaves it.
CompletedAfter(m, completed) == IF m = "Work" THEN completed + 1 ELSE completed

\* Mutant of NextMode: the cadence is tested on the count before the increment.
NextMode_PreIncrement(m, completed) ==
    IF m = "Work"
    THEN IF (completed - 1) % CadenceLength = 0 THEN "LongBreak" ELSE "ShortBreak"
    ELSE "Work"

\* Mutant of NextMode: the two arms of the cadence test are swapped.
NextMode_ArmsSwapped(m, completed) ==
    IF m = "Work"
    THEN IF completed % CadenceLength = 0 THEN "ShortBreak" ELSE "LongBreak"
    ELSE "Work"

\* The mode the completion branch moves to; `completed` is the count after the
\* increment of the Work arm.
NextMode(m, completed) ==
    IF m = "Work"
    THEN IF completed % CadenceLength = 0 THEN "LongBreak" ELSE "ShortBreak"
    ELSE "Work"

\* The body of the notification each arm shows.
NotificationBody(m) == IF m = "Work" THEN "Phase Complete!" ELSE "Get to Work!"

\* set_mode_text of each mode
ModeText(m) ==
    CASE m = "Work"       -> "FOCUS PHASE"
      [] m = "ShortBreak" -> "SHORT BREAK"
      [] m = "LongBreak"  -> "LONG BREAK"

\* set_mode_color of each mode (Color::from_rgb_u8)
ModeColor(m) ==
    CASE m = "Work"       -> <<243, 139, 168>>
      [] m = "ShortBreak" -> <<158, 206, 106>>
      [] m = "LongBreak"  -> <<125, 207, 255>>

----------------------------------------------------------------------------
(* Inputs *)

\* config.json files the program is started with.
ConfigFiles == { JsonFile(AppConfig(1, 1, 2, DefaultAlarmPath)) }

\* What the user leaves in the three settings fields before settings_changed fires.
SettingsInputs ==
    { << <<"1">>, <<"1">>, <<"2">> >>,
      << <<"2">>, <<"a", "b", "c">>, <<>> >>,
      << <<"-", "1">>, <<"+", "0", "1">>, <<"0">> >> }

\* Files the user picks in the dialog.
AlarmFiles == { <<"home", "sounds", "bell.wav">> }

----------------------------------------------------------------------------
(* The window's properties before main() sets any (ui/app-window.slint) *)

UiDefaults ==
    [is_running |-> FALSE, mode_text |-> "FOCUS PHASE", mode_color |-> ModeColor("Work"),
     progress |-> One, sessions_count |-> 0]

----------------------------------------------------------------------------
(* Observation of uninterrupted runs *)

NoRun == [ticks |-> -1]

\* A Focus phase at its full duration with the timer running.
FreshFocus(m, s, cfg, running) ==
    /\ m = "Work" /\ running /\ cfg.work_m > 0
    /\ ~TotalOverflows("Work", cfg) /\ s = TotalSeconds("Work", cfg)

\* The observation after a step that is not a counted tick.
RunAfter(m, s, cfg, running, completed) ==
    IF FreshFocus(m, s, cfg, running)
    THEN [ticks |-> 0, sessions0 |-> completed, completions |-> 0]
    ELSE NoRun

\* The observation after a running tick: one more tick of the run under way, up to
\* the tick that follows the phase's last second.
RunAfterTick(m, s, cfg, running, completed, events) ==
    IF run # NoRun /\ run.ticks <= TotalSeconds("Work", config)
    THEN [run EXCEPT !.ticks = @ + 1, !.completions = @ + events]
    ELSE RunAfter(m, s, cfg, running, completed)

----------------------------------------------------------------------------
(* main(): the state after construction, before the event loop runs *)

\* main() up to the event loop, for the config.json files given.  (An overflow
\* of work_m * 60 in a build with overflow checks panics before the window is
\* shown.)
InitWith(files) ==
    \E file \in files :
        LET cfg == LoadConfig(file) IN
        /\ config_file = file
        /\ config = cfg
        /\ seconds_left = TotalSeconds("Work", cfg)
        /\ pc \in AfterMul(TotalOverflows("Work", cfg), "unknown", "idle")
        /\ overflow_checks =
              ChecksAfter(TotalOverflows("Work", cfg), "unknown", pc = "panicked")
        /\ mode = "Work"
        /\ sessions_completed = 0
        /\ work_setting = ToString(cfg.work_m)
        /\ short_break_setting = ToString(cfg.short_m)
        /\ long_break_setting = ToString(cfg.long_m)
        /\ alarm_name = AlarmNameAtStart(cfg.alarm_path)
        /\ timer_text = FormatMinutes(cfg.work_m)
        /\ is_running = UiDefaults.is_running
        /\ mode_text = UiDefaults.mode_text
        /\ mode_color = UiDefaults.mode_color
        /\ progress = UiDefaults.progress
        /\ sessions_count = UiDefaults.sessions_count
        /\ alarms_started = <<>>
        /\ notifications_shown = <<>>
        /\ run = NoRun
        /\ alarm_threads = <<>>
        /\ notification_call = "none"
        /\ alarm_result = "none"

Init == InitWith(ConfigFiles)

----------------------------------------------------------------------------
(* The callbacks.  Each runs when the event loop is idle; a panic ends the  *)
(* process, so nothing runs after it.                                      *)

\* ui.on_settings_changed, after the user left one of `inputs` in the three
\* fields, on a disk where a write ends in one of `outcomes`.
SettingsChangedWith(inputs, outcomes) ==
    \E input \in inputs :
        LET cfg == [config EXCEPT
                       !.work_m  = ParseOr(input[1], config.work_m),
                       !.short_m = ParseOr(input[2], config.short_m),
                       !.long_m  = ParseOr(input[3], config.long_m)]
            left == SecondsAfterSettings(is_running, mode, cfg, seconds_left)
            overflows == ~is_running /\ TotalOverflows(mode, cfg)
        IN
        /\ pc = "idle"
        /\ pc' \in AfterMul(overflows, overflow_checks, "idle")
        /\ overflow_checks' = ChecksAfter(overflows, overflow_checks, pc' = "panicked")
        /\ work_setting' = input[1]
        /\ short_break_setting' = input[2]
        /\ long_break_setting' = input[3]
        /\ config' = cfg
        /\ config_file' \in { SaveConfig(cfg, config_file, o) : o \in outcomes }
        /\ seconds_left' = Unless(pc' = "panicked", left, seconds_left)
        /\ timer_text' = IF ~is_running /\ pc' # "panicked"
                         THEN FormatMinutes(TruncDiv(left, SecondsPerMinute))
                         ELSE timer_text
        /\ alarms_started' = <<>>
        /\ notifications_shown' = <<>>
        /\ run' = RunAfter(mode, seconds_left', cfg, is_running, sessions_completed)
        /\ UNCHANGED <<mode, sessions_completed, is_running, mode_text, mode_color,
                       progress, sessions_count, alarm_name, threadvars>>

SettingsChanged == SettingsChangedWith(SettingsInputs, WorkingDisk)

\* ui.on_select_file: the dialog returns a file, or nothing when cancelled.  The
\* path is stored and saved, then file_name().unwrap() panics on a path without
\* a file name.
SelectFileWith(outcomes) ==
    \/ \E path \in AlarmFiles :
        /\ pc = "idle"
        /\ config' = [config EXCEPT !.alarm_path = path]
        /\ config_file' \in { SaveConfig(config', config_file, o) : o \in outcomes }
        /\ pc' = IF FileName(path).some THEN "idle" ELSE "panicked"
        /\ alarm_name' = IF FileName(path).some THEN FileName(path).name ELSE alarm_name
        /\ alarms_started' = <<>>
        /\ notifications_shown' = <<>>
        /\ run' = RunAfter(mode, seconds_left, config', is_running, sessions_completed)
        /\ UNCHANGED <<seconds_left, mode, sessions_completed, is_running, timer_text,
                       mode_text, mode_color, progress, sessions_count, work_setting,
                       short_break_setting, long_break_setting,
                       overflow_checks, threadvars>>
    \/ /\ pc = "idle"
       /\ alarms_started' = <<>>
       /\ notifications_shown' = <<>>
       /\ run' = RunAfter(mode, seconds_left, config, is_running, sessions_completed)
       /\ UNCHANGED <<core, config_file, overflow_checks, window, pc,
                      threadvars>>

SelectFile == SelectFileWith(WorkingDisk)

\* Mutant of ToggleTimer: starting an expired phase also restarts its countdown.
ToggleTimer_RestartsExpired ==
    /\ pc = "idle"
    /\ is_running' = ~is_running
    /\ seconds_left' = IF ~is_running /\ seconds_left <= 0
                       THEN TotalSeconds(mode, config) ELSE seconds_left
    /\ alarms_started' = <<>>
    /\ notifications_shown' = <<>>
    /\ run' = RunAfter(mode, seconds_left, config, is_running', sessions_completed)
    /\ UNCHANGED <<mode, sessions_completed, config, config_file,
                   overflow_checks, timer_text, mode_text, mode_color, progress,
                   sessions_count, work_setting, short_break_setting,
                   long_break_setting, alarm_name, pc, threadvars>>

\* ui.on_toggle_timer
ToggleTimer ==
    /\ pc = "idle"
    /\ is_running' = ~is_running
    /\ alarms_started' = <<>>
    /\ notifications_shown' = <<>>
    /\ run' = RunAfter(mode, seconds_left, config, is_running', sessions_completed)
    /\ UNCHANGED <<seconds_left, mode, sessions_completed, config, config_file,
                   overflow_checks, timer_text, mode_text, mode_color,
                   progress, sessions_count, work_setting, short_break_setting,
                   long_break_setting, alarm_name, pc, threadvars>>

\* Mutant of ResetTimer: the reset leaves the phase as it is.
ResetTimer_KeepsMode ==
    /\ pc = "idle"
    /\ pc' \in AfterMul(TotalOverflows("Work", config), overflow_checks, "idle")
    /\ overflow_checks' =
          ChecksAfter(TotalOverflows("Work", config), overflow_checks, pc' = "panicked")
    /\ mode' = mode
    /\ seconds_left' = Unless(pc' = "panicked", TotalSeconds("Work", config), seconds_left)
    /\ is_running' = Unless(pc' = "panicked", FALSE, is_running)
    /\ timer_text' = Unless(pc' = "panicked", FormatMinutes(config.work_m), timer_text)
    /\ mode_text' = Unless(pc' = "panicked", "FOCUS PHASE", mode_text)
    /\ mode_color' = Unless(pc' = "panicked", <<243, 139, 168>>, mode_color)
    /\ progress' = Unless(pc' = "panicked", One, progress)
    /\ alarms_started' = <<>>
    /\ notifications_shown' = <<>>
    /\ run' = NoRun
    /\ UNCHANGED <<sessions_completed, sessions_count, config, config_file, work_setting,
                   short_break_setting, long_break_setting, alarm_name, threadvars>>

\* ui.on_reset_timer
ResetTimer ==
    /\ pc = "idle"
    /\ pc' \in AfterMul(TotalOverflows("Work", config), overflow_checks, "idle")
    /\ overflow_checks' =
          ChecksAfter(TotalOverflows("Work", config), overflow_checks, pc' = "panicked")
    /\ mode' = "Work"
    /\ seconds_left' = Unless(pc' = "panicked", TotalSeconds("Work", config), seconds_left)
    /\ is_running' = Unless(pc' = "panicked", FALSE, is_running)
    /\ timer_text' = Unless(pc' = "panicked", FormatMinutes(config.work_m), timer_text)
    /\ mode_text' = Unless(pc' = "panicked", "FOCUS PHASE", mode_text)
    /\ mode_color' = Unless(pc' = "panicked", <<243, 139, 168>>, mode_color)
    /\ progress' = Unless(pc' = "panicked", One, progress)
    /\ alarms_started' = <<>>
    /\ notifications_shown' = <<>>
    /\ run' = NoRun
    /\ UNCHANGED <<sessions_completed, sessions_count, config, config_file, work_setting,
                   short_break_setting, long_break_setting, alarm_name, threadvars>>

\* The timer callback while the window says the timer is not running: it returns.
TickGated ==
    /\ pc = "idle"
    /\ Gated(is_running)
    /\ alarms_started' = <<>>
    /\ notifications_shown' = <<>>
    /\ UNCHANGED <<core, config_file, overflow_checks, window, run, pc,
                   threadvars>>

\* The timer callback, `if s.seconds_left > 0` branch.
TickDecrement ==
    /\ pc = "idle"
    /\ ~Gated(is_running)
    /\ ~Expired(seconds_left)
    /\ pc' \in AfterMul(TotalOverflows(mode, config), overflow_checks, "idle")
    /\ overflow_checks' =
          ChecksAfter(TotalOverflows(mode, config), overflow_checks, pc' = "panicked")
    /\ seconds_left' = seconds_left - 1
    /\ timer_text' = FormatClock(seconds_left')
    /\ progress' = Unless(pc' = "panicked",
                          Ratio(seconds_left', TotalSeconds(mode, config)), progress)
    /\ alarms_started' = <<>>
    /\ notifications_shown' = <<>>
    /\ run' = RunAfterTick(mode, seconds_left', config, is_running, sessions_completed, 0)
    /\ UNCHANGED <<mode, sessions_completed, config, config_file,
                   is_running, mode_text, mode_color, sessions_count, work_setting,
                   short_break_setting, long_break_setting, alarm_name, threadvars>>

\* The timer callback, `else` branch, when play_alarm panics: the callback ends
\* before the match, with the state and the window of the phase that is over.
TickSpawnPanic ==
    \E spawn \in SpawnOutcomes :
        /\ pc = "idle"
        /\ ~Gated(is_running)
        /\ Expired(seconds_left)
        /\ CompletedAfter(mode, sessions_completed) <= MaxSessions
        /\ PlayAlarmPanics(spawn)
        /\ alarms_started' = PlayAlarm(config.alarm_path, spawn)
        /\ notifications_shown' = <<>>
        /\ pc' = "panicked"
        /\ run' = RunAfterTick(mode, seconds_left, config, is_running, sessions_completed, 0)
        /\ UNCHANGED <<core, config_file, overflow_checks, window, threadvars>>

\* The timer callback, `else` branch, when play_alarm returns: the phase is
\* switched.  (The model stops at MaxSessions completed sessions.)
TickSwitch ==
    \E spawn \in SpawnOutcomes :
    /\ pc = "idle"
    /\ ~Gated(is_running)
    /\ Expired(seconds_left)
    /\ CompletedAfter(mode, sessions_completed) <= MaxSessions
    /\ ~PlayAlarmPanics(spawn)
    /\ alarms_started' = PlayAlarm(config.alarm_path, spawn)
    /\ sessions_completed' = CompletedAfter(mode, sessions_completed)
    /\ sessions_count' = IF mode = "Work" THEN sessions_completed' ELSE sessions_count
    /\ mode' = NextMode(mode, sessions_completed')
    /\ pc' \in AfterMul(TotalOverflows(mode', config), overflow_checks, "idle")
    /\ overflow_checks' =
          ChecksAfter(TotalOverflows(mode', config), overflow_checks, pc' = "panicked")
    /\ seconds_left' = Unless(pc' = "panicked", TotalSeconds(mode', config), seconds_left)
    /\ mode_text' = Unless(pc' = "panicked", ModeText(mode'), mode_text)
    /\ mode_color' = Unless(pc' = "panicked", ModeColor(mode'), mode_color)
    /\ notifications_shown' = Unless(pc' = "panicked",
                                     ShowNotification(NotificationBody(mode)), <<>>)
    /\ run' = RunAfterTick(mode', seconds_left', config, is_running, sessions_completed', 1)
    /\ UNCHANGED <<config, config_file, is_running, timer_text, progress,
                   work_setting, short_break_setting, long_break_setting, alarm_name,
                   threadvars>>

\* The timer callback, `else` branch: the phase is over.
TickComplete == TickSpawnPanic \/ TickSwitch

\* timer.start(TimerMode::Repeated, 1 s, ...)
Tick == TickGated \/ TickDecrement \/ TickComplete

Next == SettingsChanged \/ SelectFile \/ ToggleTimer \/ ResetTimer \/ Tick

Spec == Init /\ [][Next]_vars

----------------------------------------------------------------------------
(* The running timer left alone: the user starts it and then neither       *)
(* toggles, resets nor edits.  timer.start(TimerMode::Repeated, 1 s) keeps *)
(* the callback firing, which is the fairness on the running tick.         *)

\* The toggle that starts the timer.
StartTimer == ~is_running /\ ToggleTimer

\* A step of the timer callback that passes the running gate.
RunningTick == Tick /\ is_running

NextLive == StartTimer \/ Tick

\* Left alone from positive durations: one minute each and a long break of two,
\* or a short break whose seconds do not fit 32 bits.
LiveConfigFiles ==
    { JsonFile(AppConfig(1, 1, 2, DefaultAlarmPath)),
      JsonFile(AppConfig(1, 35791395, 2, DefaultAlarmPath)) }

InitLive == InitWith(LiveConfigFiles)

SpecLive == InitLive /\ [][NextLive]_vars /\ WF_vars(RunningTick)

----------------------------------------------------------------------------
(* The event loop with durations whose seconds do not fit an i32 *)

\* 35791395 * 60 = 2147483700 is the first product above i32::MAX.
OverflowMinutes == <<"3", "5", "7", "9", "1", "3", "9", "5">>

\* Settings fields: the durations of the start; a focus duration that overflows
\* with a short break of no length (the long break field left empty); and a
\* short break that overflows after one minute of focus.
OverflowSettingsInputs ==
    { << <<"1">>, <<"1">>, <<"2">> >>,
      << OverflowMinutes, <<"0">>, <<>> >>,
      << <<"1">>, OverflowMinutes, <<>> >> }

\* config.json files: the durations of the start, and the overflowing focus
\* duration already in the file.
OverflowConfigFiles ==
    { JsonFile(AppConfig(1, 1, 2, DefaultAlarmPath)),
      JsonFile(AppConfig(35791395, 0, 2, DefaultAlarmPath)) }

OverflowSettingsChanged == SettingsChangedWith(OverflowSettingsInputs, WorkingDisk)

InitOverflow == InitWith(OverflowConfigFiles)

NextOverflow ==
    OverflowSettingsChanged \/ SelectFile \/ ToggleTimer \/ ResetTimer \/ Tick

SpecOverflow == InitOverflow /\ [][NextOverflow]_vars

----------------------------------------------------------------------------
(* The completion branch at the level of threads.  play_alarm returns as   *)
(* soon as thread::spawn has made the thread; the thread runs on its own.  *)
(* Notification::show is called on the event-loop thread and hands its     *)
(* Result back to the callback.  No other callback runs while the timer    *)
(* callback is inside its completion branch (one event loop); the threads  *)
(* run whatever the event loop does, until the process ends.               *)

MaxAlarmThreads == 1

\* A play_alarm thread: where it stands, and (observation) where the callback
\* that spawned it stands: "before switch", "after switch" or "returned".
AlarmThread(st, callback) == [st |-> st, callback |-> callback]

RemoveAt(seq, i) == SubSeq(seq, 1, i - 1) \o SubSeq(seq, i + 1, Len(seq))

\* The early `return` of the thread's closure, and the `if let Ok` that does not
\* match: the thread ends.
AlarmFailed(threads, i) == RemoveAt(threads, i)

\* What can go wrong in the thread, in the order of the closure.
AlarmFailures == {"no output stream", "no sink", "file not opened", "file not decoded"}

\* The Result that show() hands back.
ShowResults == {"delivered", "failed"}

\* timer callback, completion branch up to play_alarm: the thread is spawned, the
\* state is still that of the completed phase; or thread::spawn panics and the
\* callback ends there.
CompleteSpawn ==
    \E spawn \in SpawnOutcomes :
        /\ pc = "idle"
        /\ ~Gated(is_running)
        /\ Expired(seconds_left)
        /\ CompletedAfter(mode, sessions_completed) <= MaxSessions
        /\ Len(alarm_threads) < MaxAlarmThreads
        /\ alarms_started' = PlayAlarm(config.alarm_path, spawn)
        /\ alarm_threads' = IF PlayAlarmPanics(spawn) THEN alarm_threads
                            ELSE Append(alarm_threads, AlarmThread("spawned", "before switch"))
        /\ notifications_shown' = <<>>
        /\ pc' = IF PlayAlarmPanics(spawn) THEN "panicked" ELSE "spawned"
        /\ run' = IF PlayAlarmPanics(spawn)
                  THEN RunAfterTick(mode, seconds_left, config, is_running,
                                    sessions_completed, 0)
                  ELSE run
        /\ UNCHANGED <<core, config_file, overflow_checks, window,
                       notification_call, alarm_result>>

\* timer callback, completion branch from the match to the call of show(): the
\* state and the window are switched to the next phase, then show() is entered.
CompleteSwitch ==
    /\ pc = "spawned"
    /\ sessions_completed' = CompletedAfter(mode, sessions_completed)
    /\ sessions_count' = IF mode = "Work" THEN sessions_completed' ELSE sessions_count
    /\ mode' = NextMode(mode, sessions_completed')
    /\ pc' \in AfterMul(TotalOverflows(mode', config), overflow_checks, "notifying")
    /\ overflow_checks' =
          ChecksAfter(TotalOverflows(mode', config), overflow_checks, pc' = "panicked")
    /\ seconds_left' = Unless(pc' = "panicked", TotalSeconds(mode', config), seconds_left)
    /\ mode_text' = Unless(pc' = "panicked", ModeText(mode'), mode_text)
    /\ mode_color' = Unless(pc' = "panicked", ModeColor(mode'), mode_color)
    /\ notifications_shown' = Unless(pc' = "panicked",
                                     ShowNotification(NotificationBody(mode)), <<>>)
    /\ notification_call' = Unless(pc' = "panicked", "pending", notification_call)
    /\ alarm_threads' = [i \in DOMAIN alarm_threads |->
                            [alarm_threads[i] EXCEPT !.callback =
                                IF @ = "before switch" THEN "after switch" ELSE @]]
    /\ run' = RunAfterTick(mode', seconds_left', config, is_running, sessions_completed', 1)
    /\ UNCHANGED <<config, config_file, is_running, timer_text, progress,
                   work_setting, short_break_setting, long_break_setting, alarm_name,
                   alarms_started, alarm_result>>

\* The notification service answers the call, or the call fails.
NotificationReply ==
    /\ pc # "panicked"
    /\ notification_call = "pending"
    /\ \E result \in ShowResults : notification_call' = result
    /\ UNCHANGED <<core, config_file, overflow_checks, window, effects,
                   run, pc, alarm_threads, alarm_result>>

\* show() returns its Result, `let _ =` drops it, the callback ends.
CallbackReturn ==
    /\ pc = "notifying"
    /\ notification_call \in ShowResults
    /\ pc' = "idle"
    /\ notification_call' = "none"
    /\ alarm_result' = "none"
    /\ alarm_threads' = [i \in DOMAIN alarm_threads |->
                            [alarm_threads[i] EXCEPT !.callback = "returned"]]
    /\ UNCHANGED <<core, config_file, overflow_checks, window, effects,
                   run>>

\* The spawned thread is scheduled and enters the closure.
AlarmBegin ==
    \E i \in DOMAIN alarm_threads :
        /\ pc # "panicked"
        /\ alarm_threads[i].st = "spawned"
        /\ alarm_threads' = [alarm_threads EXCEPT ![i].st = "started"]
        /\ UNCHANGED <<core, config_file, overflow_checks, window,
                       effects, run, pc, notification_call, alarm_result>>

\* OutputStream::try_default, Sink::try_new, File::open or Decoder::new fails.
AlarmFail ==
    \E i \in DOMAIN alarm_threads, why \in AlarmFailures :
        /\ pc # "panicked"
        /\ alarm_threads[i].st = "started"
        /\ alarm_threads' = AlarmFailed(alarm_threads, i)
        /\ alarm_result' = IF alarm_threads[i].callback = "returned"
                           THEN alarm_result ELSE "failed"
        /\ UNCHANGED <<core, config_file, overflow_checks, window,
                       effects, run, pc, notification_call>>

\* sink.append(source): the sound plays (sleep_until_end).
AlarmPlay ==
    \E i \in DOMAIN alarm_threads :
        /\ pc # "panicked"
        /\ alarm_threads[i].st = "started"
        /\ alarm_threads' = [alarm_threads EXCEPT ![i].st = "playing"]
        /\ UNCHANGED <<core, config_file, overflow_checks, window,
                       effects, run, pc, notification_call, alarm_result>>

\* sleep_until_end returns: the thread ends.
AlarmEnd ==
    \E i \in DOMAIN alarm_threads :
        /\ pc # "panicked"
        /\ alarm_threads[i].st = "playing"
        /\ alarm_threads' = RemoveAt(alarm_threads, i)
        /\ alarm_result' = IF alarm_threads[i].callback = "returned"
                           THEN alarm_result ELSE "played"
        /\ UNCHANGED <<core, config_file, overflow_checks, window,
                       effects, run, pc, notification_call>>

\* The steps of the timer callback inside its completion branch.
CallbackStep == CompleteSwitch \/ CallbackReturn

\* What the user enters in the thread-level view: an expired focus duration
\* with a text that does not parse.
EffectsSettingsInputs == { << <<"0">>, <<"x">>, <<"1">> >> }

\* The thread-level view runs on any disk: each save ends in its own way.
EffectsSettingsChanged == SettingsChangedWith(EffectsSettingsInputs, WriteOutcomes)

EffectsSelectFile == SelectFileWith(WriteOutcomes)

NextEffects ==
    \/ EffectsSettingsChanged \/ EffectsSelectFile \/ ToggleTimer \/ ResetTimer
    \/ TickGated \/ TickDecrement
    \/ CompleteSpawn \/ CompleteSwitch \/ NotificationReply \/ CallbackReturn
    \/ AlarmBegin \/ AlarmFail \/ AlarmPlay \/ AlarmEnd

\* The thread-level view starts from one minute for each phase.
EffectsConfigFiles == { JsonFile(AppConfig(1, 1, 1, DefaultAlarmPath)) }

InitEffects == InitWith(EffectsConfigFiles)

SpecEffects == InitEffects /\ [][NextEffects]_vars

----------------------------------------------------------------------------
(* The properties *)

\* duration_for(phase) * 60 of the data model: the phase's minutes, in seconds.
DurationFor(phase, cfg) ==
    60 * (IF phase = "Work" THEN cfg.work_m
          ELSE IF phase = "ShortBreak" THEN cfg.short_m
          ELSE cfg.long_m)

\* s is duration_for(phase) * 60: no 32-bit remaining time equals a product
\* that does not fit 32 bits.
IsDurationFor(s, phase, cfg) ==
    ~TotalOverflows(phase, cfg) /\ s = DurationFor(phase, cfg)

\* A settings-changed callback, whatever the text in the fields.
AnySettingsChanged == SettingsChanged \/ OverflowSettingsChanged

Breaks == {"ShortBreak", "LongBreak"}

\* A running tick that finds the phase over and whose play_alarm returns.
CompletingTick == RunningTick /\ seconds_left <= 0 /\ alarms_started' # <<>>

\* A running tick that finds the phase over and whose play_alarm panics.
RefusedTick == RunningTick /\ seconds_left <= 0 /\ alarms_started' = <<>>

\* C1: in every reachable state 0 <= remaining_seconds <= duration_for(phase) * 60
\* under the configuration held in the state.
C1_RemainingWithinPhase ==
    0 <= seconds_left /\ seconds_left <= DurationFor(mode, config)

FirstBreaks == <<"ShortBreak", "ShortBreak", "ShortBreak", "LongBreak", "ShortBreak">>

C4_CountGrowsOnlyAtFocusZero ==
    [][\/ sessions_completed' = sessions_completed
       \/ /\ sessions_completed' = sessions_completed + 1
          /\ RunningTick /\ mode = "Work" /\ seconds_left = 0]_vars

\* C5: every running tick with remaining_seconds = 0 starts exactly one alarm (for
\* the configured file) and shows exactly one notification; a step that is not a
\* phase-completing tick starts and shows none.
C5_EffectsOncePerCompletion ==
    [][/\ (RunningTick /\ seconds_left = 0)
            => /\ alarms_started' = <<config.alarm_path>>
               /\ Len(notifications_shown') = 1
       /\ ~(RunningTick /\ seconds_left <= 0)
            => /\ alarms_started' = <<>>
               /\ notifications_shown' = <<>>]_vars

\* C6: a running tick with remaining_seconds = 0 moves to another phase and sets
\* remaining_seconds to that phase's full duration under the configuration held at
\* the tick, without decrementing; a running tick with remaining_seconds > 0
\* decreases remaining_seconds by exactly 1 and changes nothing else of the state.
C6_TickStep ==
    [][/\ (RunningTick /\ seconds_left = 0)
            => /\ mode' # mode
               /\ (mode = "Work") = (mode' \in Breaks)
               /\ IsDurationFor(seconds_left', mode', config)
               /\ UNCHANGED <<config, is_running>>
       /\ (RunningTick /\ seconds_left > 0)
            => /\ seconds_left' = seconds_left - 1
               /\ UNCHANGED <<mode, sessions_completed, config, is_running,
                              sessions_count, mode_text, mode_color>>]_vars

\* C7: reset yields phase = Focus, running = false and remaining_seconds =
\* focus_minutes*60 under the current configuration, and leaves
\* completed_focus_sessions and the configuration unchanged.
C7_Reset ==
    [][ResetTimer =>
          /\ mode' = "Work"
          /\ is_running' = FALSE
          /\ IsDurationFor(seconds_left', "Work", config)
          /\ UNCHANGED <<sessions_completed, config>>]_vars

\* C8: settings-changed never changes phase or completed_focus_sessions; when the
\* timer is not running it sets remaining_seconds to the phase's full duration
\* under the new configuration, when running it leaves remaining_seconds alone.
C8_Configure ==
    [][AnySettingsChanged =>
          /\ UNCHANGED <<mode, sessions_completed>>
          /\ ~is_running => IsDurationFor(seconds_left', mode, config')
          /\ is_running => seconds_left' = seconds_left]_vars

\* C9: a tick while running = false changes nothing: no variable of the state or
\* of the window changes and nothing is dispatched.
C9_GatedTickNoOp ==
    [][(Tick /\ ~is_running) =>
          /\ UNCHANGED vars
          /\ alarms_started' = <<>>
          /\ notifications_shown' = <<>>]_vars

\* C9 witness: the timer paused in the middle of a break, where ticks keep
\* arriving.
C9_Witness ==
    /\ ~is_running /\ mode = "ShortBreak"
    /\ 0 < seconds_left /\ seconds_left < DurationFor(mode, config)

\* C10: from tick to tick within a phase the progress fraction does not increase,
\* and right after a phase-completing tick it is 1.0.
C10_ProgressMonotoneThenFull ==
    [][RunningTick =>
          IF seconds_left <= 0
          THEN progress' = One
          ELSE RatioLeq(progress', progress)]_vars

\* C11: in every reachable state the remaining-time text of the window is the
\* remaining seconds of the state written as MM:SS: each state-changing
\* operation leaves them equal, so they agree between operations.
C11_TimerTextShowsRemaining == timer_text = FormatClock(seconds_left)

\* C12: in every reachable state the progress fraction is a number between 0.0
\* and 1.0.
C12_ProgressWithinUnit ==
    /\ RatioLeq(Ratio(0, 1), progress)
    /\ RatioLeq(progress, One)

\* C16: in every reachable state the three durations of the configuration held
\* are strictly positive.
C16_DurationsPositive ==
    /\ config.work_m > 0
    /\ config.short_m > 0
    /\ config.long_m > 0

\* C17: the toggle flips the running flag and changes nothing else of the state
\* or of the window, whatever the remaining time; so a second toggle gives back
\* the state the first one started from.
C17_ToggleOnlyFlips ==
    [][ToggleTimer =>
          /\ is_running' = ~is_running
          /\ UNCHANGED <<core, config_file, timer_text, mode_text, mode_color,
                         progress, sessions_count, work_setting,
                         short_break_setting, long_break_setting, alarm_name>>]_vars

\* C17 witness: a Focus phase that ran down to 0 and was then paused by the
\* toggle before the completing tick.
C17_Witness ==
    /\ ~is_running /\ seconds_left = 0 /\ mode = "Work"
    /\ timer_text = <<"0", "0", ":", "0", "0">>

\* C18: the phase agrees with the count: a long break only with a positive
\* multiple of four completed sessions, a short break only with a count that
\* is not a multiple of four.
C18_PhaseAgreesWithCount ==
    /\ mode = "LongBreak" =>
          sessions_completed > 0 /\ sessions_completed % CadenceLength = 0
    /\ mode = "ShortBreak" => sessions_completed % CadenceLength # 0

\* C18 witness: the long break after the fourth session, paused part-way.
C18_Witness ==
    /\ mode = "LongBreak" /\ sessions_completed = 4 /\ ~is_running
    /\ 0 < seconds_left /\ seconds_left < DurationFor(mode, config)

C13_EffectsStartAfterSwitch ==
    /\ \A i \in DOMAIN alarm_threads :
          alarm_threads[i].st # "spawned" => alarm_threads[i].callback # "before switch"
    /\ notification_call = "pending" => pc # "spawned"

\* C14: the timer callback never waits for an effect: inside its completion
\* branch it can always take its next step by itself, whatever the alarm threads
\* and the notification service are doing.
C14_CallbackNeverWaits == pc \in {"spawned", "notifying"} => ENABLED CallbackStep

\* C15: a failing effect stays outside the state machine: the attempt to start
\* the alarm lets the callback go on to the switch; whatever the alarm threads
\* did, the switch gives the next phase, its full duration, the count and the
\* running flag of the completion; the failure of an alarm thread, the answer of
\* the notification service (delivered or failed) and the return of the callback
\* change nothing of the state or the window; a failed thread ends and no new
\* thread or call takes its place.
C15_FailuresStayOutside ==
    [][/\ CompleteSpawn => pc' = "spawned"
       /\ CompleteSwitch =>
             /\ sessions_completed' =
                    IF mode = "Work" THEN sessions_completed + 1 ELSE sessions_completed
             /\ (mode = "Work") # (mode' = "Work")
             /\ seconds_left' = DurationFor(mode', config)
             /\ is_running' = is_running
       /\ (AlarmFail \/ NotificationReply \/ CallbackReturn) =>
             UNCHANGED <<core, config_file, window, effects>>
       /\ AlarmFail =>
             /\ Len(alarm_threads') = Len(alarm_threads) - 1
             /\ notification_call' = notification_call
       /\ NotificationReply =>
             /\ notification_call' \in ShowResults
             /\ alarm_threads' = alarm_threads]_vars

\* C20: left running from positive durations with ticks arriving, the clock is
\* never stuck: every Focus phase completes (the count goes past each value
\* below the bound of the model) and every break completes and gives way to
\* Focus again.
C20_ClockKeepsGoing ==
    /\ \A k \in 0..(MaxSessions - 1) :
          (is_running /\ sessions_completed = k) ~> (sessions_completed = k + 1)
    /\ \A k \in 0..MaxSessions :
          (is_running /\ mode \in Breaks /\ sessions_completed = k)
             ~> (mode = "Work" /\ sessions_completed = k)

====
